---- MODULE Spec2Model ----
(***************************************************************************)
(* useApi (src/src/use-api/index.ts) on top of createEventHook             *)
(* (src/unnamed/part_004): the argument-keyed cache, the execution engine, *)
(* the getRef bindings and the getGroupByArg views of one engine instance. *)
(* useAwaitingEvent (src/unnamed/part_007, part_006) is modelled next to   *)
(* it, on variables of its own.                                            *)
(*                                                                         *)
(* The JavaScript event loop is modelled as follows.  Every synchronous    *)
(* section of the code is one action.  The microtasks the code itself      *)
(* creates (the scheduler flush of Vue's pre-flush watcher queue and the   *)
(* continuations of "await execute(...)" inside getRef) are kept in the    *)
(* FIFO queue mq; calls made by the user and settlements of the fetch      *)
(* promise may happen between any two of them.                             *)
(***************************************************************************)
EXTENDS Integers, Sequences, FiniteSets, Bags, TLC

\* ------------------------------------------------------------------ bounds
MaxCalls    == 2      \* invocations of the fetch function in Spec and SpecTime
MaxRefCalls == 3      \* the same, in the behaviours of SpecRef
MaxLiveCalls == 2     \* the same, in the behaviours of SpecLive
MaxGroupCalls == 2    \* the same, in the behaviours of SpecGroup
MaxRefs     == 1      \* getRef bindings created in one behaviour
MaxViews    == 1      \* getGroupByArg views created in one behaviour
MaxHandlers == 1      \* handlers registered on the hooks in one behaviour
MaxTime     == 1500   \* last instant (ms) the clock is advanced to
MaxResponse == 2      \* the fetch function resolves with 1..MaxResponse
MaxTwoCalls == 1      \* invocations of the fetch function by each engine of SpecTwo
MaxWaits    == 2      \* executions useAwaitingEvent accepts in one behaviour
MaxRegs     == 2      \* calls on(h) for one handler of one hook before an off(h)
TickMs      == 500    \* step (ms) by which the clock is advanced
MaxItems    == 2      \* items of an array payload, properties of an object payload

\* -------------------------------------------------------- program constants
MsPerSecond == 1000   \* options.cacheTime * 1000
InitialTimeout == 1000  \* useAwaitingEvent(initialTimeout = 1000)

\* ------------------------------------------------------ JavaScript values
\* An argument value: a number, a string (a sequence of characters) or
\* undefined.  One record shape for all, so that values are comparable.
Num(n)    == [t |-> "num", n |-> n, s |-> <<>>]
Str(cs)   == [t |-> "str", n |-> 0, s |-> cs]
Undefined == [t |-> "undefined", n |-> 0, s |-> <<>>]

Digits == <<"0", "1", "2", "3", "4", "5", "6", "7", "8", "9">>
IsDigit(c) == \E d \in 1..10 : Digits[d] = c
DigitVal(c) == (CHOOSE d \in 1..10 : Digits[d] = c) - 1

RECURSIVE NumChars(_)
NumChars(n) == IF n < 10 THEN <<Digits[n + 1]>>
               ELSE NumChars(n \div 10) \o <<Digits[(n % 10) + 1]>>

\* JSON.stringify of one value.  JSON.stringify(undefined) is undefined, not
\* a string: it is represented by the empty sequence, which is the JSON text
\* of no value.
NoText == <<>>

\* mutation: a string is written without its quotes
JSONStringify_Unquoted(v) ==
    CASE v.t = "num" -> NumChars(v.n)
      [] v.t = "str" -> v.s
      [] OTHER       -> <<>>

JSONStringify(v) ==
    CASE v.t = "num" -> NumChars(v.n)
      [] v.t = "str" -> <<"\"">> \o v.s \o <<"\"">>
      [] OTHER       -> NoText

\* JSON.stringify of an argument array: "[" e1 "," e2 ... "]".
RECURSIVE JoinElems(_)
JoinElems(args) ==
    IF args = <<>> THEN <<>>
    ELSE IF Len(args) = 1 THEN JSONStringify(args[1])
    ELSE JSONStringify(args[1]) \o <<",">> \o JoinElems(Tail(args))

StringifyArgs(args) == <<"[">> \o JoinElems(args) \o <<"]">>

\* JSON.parse of the text of an array of numbers and strings.
RECURSIVE DigitsEnd(_, _)
DigitsEnd(s, i) == IF i + 1 <= Len(s) /\ IsDigit(s[i + 1])
                   THEN DigitsEnd(s, i + 1) ELSE i

RECURSIVE NumVal(_)
NumVal(cs) == IF cs = <<>> THEN 0
              ELSE 10 * NumVal(SubSeq(cs, 1, Len(cs) - 1)) + DigitVal(cs[Len(cs)])

RECURSIVE ParseElems(_, _)
ParseElems(s, i) ==
    IF i > Len(s) \/ s[i] = "]" THEN <<>>
    ELSE IF s[i] = "," \/ s[i] = "[" THEN ParseElems(s, i + 1)
    ELSE IF s[i] = "\""
         THEN LET j == CHOOSE k \in (i + 1)..Len(s) :
                           /\ s[k] = "\""
                           /\ \A m \in (i + 1)..(k - 1) : s[m] # "\""
              IN  <<Str(SubSeq(s, i + 1, j - 1))>> \o ParseElems(s, j + 1)
         ELSE LET j == DigitsEnd(s, i)
              IN  <<Num(NumVal(SubSeq(s, i, j)))>> \o ParseElems(s, j + 1)

JSONParse(key) == ParseElems(key, 1)

\* mutation: positions counted from 1
ElementAt_OneBased(arr, index) == IF index \in 1..Len(arr) THEN arr[index] ELSE Undefined

\* JSON.parse(key)[index]: undefined beyond the end of the array.
ElementAt(arr, index) == IF index + 1 \in 1..Len(arr) THEN arr[index + 1] ELSE Undefined


\* ---------------------------------------------------------------- payloads
NoDate      == -1     \* a payload without a fetchedAt stamp
NoCacheTime == -1     \* options.cacheTime is undefined
NoIndex     == -1     \* getGroupByArg called without an index
Null        == "null"

Data(v, at)  == [val |-> v, fetchedAt |-> at]
DefaultValue == Data(0, NoDate)          \* the defaultValue handed to getRef
Responses    == 1..MaxResponse           \* what the fetch function resolves with
RawErrors    == {"E1"}                   \* what the fetch function rejects with
HandlerError == "H"                      \* what a throwing handler throws
Handlers     == {"ok", "bad"}            \* "bad" throws HandlerError when invoked

\* The user's adapter functions (examples of pure transforms).
AdapterFn(response) == response + 10
ErrorAdapterFn(err) == "adapted:" \o err

VARIABLES
    options,     \* [cacheTime, adapter, errorAdapter], fixed at construction
    argSpace,    \* the argument tuples the user calls the engine with
    budget,      \* how many times the fetch function may be invoked
    peer,        \* the state of a second engine, made by another call of useApi
    now,         \* Date.now(), in ms
    isLoading,   \* isLoading.value
    error,       \* error.value
    triggerRef,  \* triggerRef.value
    cache,       \* cache.value: the Map, as the sequence of its entries
    hooks,       \* the handler sets of successHook, errorHook, finallyHook
    calls,       \* the bag of executions suspended at "await request(...args)"
    refs,        \* the getRef bindings (result shallowRef and its watchEffect)
    mq,          \* pending microtasks created by the engine, FIFO
    views,       \* the computed refs returned by getGroupByArg
    nFetch,      \* number of invocations of the fetch function so far
    ret,         \* what the last step returned to the user, if anything
    hist,        \* history of the calls, for the properties below
    \* useAwaitingEvent (src/unnamed/part_007, and part_006 where it differs)
    timerIsRef,  \* TRUE: timer is a ref with a watcher (part_007); FALSE: a plain variable (part_006)
    isWaiting,   \* isWaiting.value
    timeout,     \* timeout.value, in ms
    timer,       \* the id the last setTimeout returned, NoTimer once cancel has run
    timers,      \* the host's timers, by id: [due, p, data, armed]
    promises,    \* the promises execute has created: [state, data, err]
    watchers     \* the watchers execute has created: [source, old, p, queued]

awaitVars == <<timerIsRef, isWaiting, timeout, timer, timers, promises, watchers>>
apiVars == <<options, argSpace, budget, peer, isLoading, error, triggerRef, cache, hooks,
             calls, refs, mq, views, nFetch>>

vars == <<options, argSpace, budget, peer, now, isLoading, error, triggerRef, cache, hooks,
          calls, refs, mq, views, nFetch, ret, hist, awaitVars>>

\* ------------------------------------------------------------ the Map cache
Has(c, key) == \E i \in 1..Len(c) : c[i].key = key
IndexOf(c, key) == CHOOSE i \in 1..Len(c) : c[i].key = key
Get(c, key) == c[IndexOf(c, key)].data
\* mutation: an existing entry is not overwritten
Set_KeepFirst(c, key, data) ==
    IF Has(c, key) THEN c ELSE Append(c, [key |-> key, data |-> data])

\* Map.prototype.set keeps the position of an existing key.
Set(c, key, data) ==
    IF Has(c, key) THEN [c EXCEPT ![IndexOf(c, key)].data = data]
    ELSE Append(c, [key |-> key, data |-> data])
\* mutation: every entry is removed
Delete_All(c, key) == <<>>

Delete(c, key) ==
    LET Keep(e) == e.key # key IN SelectSeq(c, Keep)

\* ------------------------------------------------------------------ options
\* mutation: cacheTime is tested against undefined, so 0 counts as set
Truthy_Defined(n) == n # NoCacheTime

\* "if (options.cacheTime)", "options?.cacheTime ? ... : ...": 0 is falsy
Truthy(n) == n # NoCacheTime /\ n # 0

Adapt(response) ==
    IF options.adapter THEN AdapterFn(response) ELSE response

AdaptError(err) ==
    IF options.errorAdapter THEN ErrorAdapterFn(err) ELSE err

\* {...adaptedData, fetchedAt: new Date()} when cacheTime is set
Stamp(adapted) ==
    IF Truthy(options.cacheTime) THEN Data(adapted, now) ELSE Data(adapted, NoDate)

\* mutation: nothing expires
IsExpired_Never(data) == FALSE

\* mutation: the test that cacheTime and fetchedAt are set is missing, and an
\* entry lives one second
IsExpired_Unguarded(data) == data.fetchedAt + MsPerSecond < now

IsExpired(data) ==
    IF data.fetchedAt # NoDate /\ Truthy(options.cacheTime)
    THEN data.fetchedAt + options.cacheTime * MsPerSecond < now
    ELSE FALSE

\* mutation: the sense of ignoreCache is inverted
CacheHit_Inverted(ignoreCache, key) ==
    /\ ignoreCache
    /\ Has(cache, key)
    /\ ~IsExpired(Get(cache, key))

\* the early return of execute
CacheHit(ignoreCache, key) ==
    /\ ~ignoreCache
    /\ Has(cache, key)
    /\ ~IsExpired(Get(cache, key))

\* ---------------------------------------------------------------- the hooks
\* handlers is a Set: adding a member again changes nothing, and forEach
\* visits in insertion order.
On(hs, h) == IF \E i \in 1..Len(hs) : hs[i] = h THEN hs ELSE Append(hs, h)

\* mutation: off removes every handler
Off_All(hs, h) == <<>>

\* handlers.delete(handler)
Off(hs, h) == LET Keep(x) == x # h IN SelectSeq(hs, Keep)

\* trigger: forEach stops at the first handler that throws.
Throws(hs) == \E i \in 1..Len(hs) : hs[i] = "bad"

\* What trigger(payload) does: the call itself, then the handlers it invokes,
\* in insertion order, up to and including the first one that throws.
NoData == Data(-1, NoDate)
Payload(data, err) == [data |-> data, err |-> err]
NoPayload == Payload(NoData, Null)
TriggerCall == "trigger"
Invoked(hs) ==
    IF Throws(hs) THEN SubSeq(hs, 1, CHOOSE i \in 1..Len(hs) :
                                         hs[i] = "bad" /\ \A j \in 1..(i - 1) : hs[j] # "bad")
    ELSE hs
Trigger(hook, hs, payload) ==
    <<[hook |-> hook, h |-> TriggerCall, payload |-> payload]>>
    \o [i \in 1..Len(Invoked(hs)) |-> [hook |-> hook, h |-> Invoked(hs)[i], payload |-> payload]]

\* ---------------------------------------------------------- Vue's scheduler
FlushTask == [t |-> "flush", ref |-> 0, ok |-> TRUE, data |-> DefaultValue]
AssignTask(b, ok, data) == [t |-> "assign", ref |-> b, ok |-> ok, data |-> data]
FlushPending(q) == \E i \in 1..Len(q) : q[i].t = "flush"

\* mutation: no dependent is triggered
QueueJobs_None(rs, deps) == rs

\* queueJob for the watchEffect of every binding whose dependency changed:
\* a job already in the queue is not added again.
QueueJobs(rs, deps) ==
    [b \in 1..Len(rs) |-> IF b \in deps THEN [rs[b] EXCEPT !.queued = TRUE] ELSE rs[b]]

\* the bindings whose watchEffect read the entry of key, and all of them
\* (every watchEffect reads triggerRef)
KeyDeps(rs, key) == {b \in 1..Len(rs) : rs[b].key = key}
AllDeps(rs) == 1..Len(rs)

\* queueFlush: one flush microtask for all queued jobs.
QueueFlush(q, rs) ==
    IF (\E b \in 1..Len(rs) : rs[b].queued) /\ ~FlushPending(q)
    THEN Append(q, FlushTask) ELSE q

\* mutation: a computed keeps its value when the cache changes
Invalidate_Never(vs) == vs

\* Cache mutations invalidate every getGroupByArg computed that was evaluated.
Invalidate(vs) == [v \in 1..Len(vs) |-> [vs[v] EXCEPT !.dirty = TRUE]]

\* ret: what the last step returned to the user, the handlers it invoked
\* (fired) and what the engine's state was at each trigger of a hook (seen)
NoRet == [op |-> "none", args |-> <<>>, kind |-> "none", data |-> DefaultValue, err |-> Null,
          fired |-> <<>>, seen |-> <<>>]
Returned(op, args, kind, data, err) ==
    [op |-> op, args |-> args, kind |-> kind, data |-> data, err |-> err, fired |-> <<>>,
     seen |-> <<>>]

\* what a handler of hook can read when the hook is triggered: isLoading.value,
\* the entry of the call's key and triggerRef.value
Observe(hook, loading, c, key, gen) ==
    [hook |-> hook, isLoading |-> loading,
     entry |-> IF Has(c, key) THEN Get(c, key) ELSE NoData, triggerRef |-> gen]

\* ------------------------------------------------------------------ execute
\* The synchronous first part of execute (lines 133-153), on the part of the
\* state it may touch.  by = 0: called by the user; by = b: called by the
\* watchEffect of binding b.
EngineState == [isLoading |-> isLoading, error |-> error, calls |-> calls,
                mq |-> mq, refs |-> refs, nFetch |-> nFetch]

\* mutation: the loading transition is made before the cache is looked up
ExecuteStart_Eager(st, ignoreCache, args, op, by) ==
    LET key == StringifyArgs(args) IN
    IF CacheHit(ignoreCache, key)
    THEN [st EXCEPT !.isLoading = TRUE, !.error = Null]
    ELSE [st EXCEPT !.isLoading = TRUE,
                    !.error = Null,
                    !.calls = @ (+) SetToBag({[args |-> args, key |-> key, op |-> op, by |-> by]}),
                    !.nFetch = @ + 1]

\* mutation: error.value = null is missing
ExecuteStart_KeepError(st, ignoreCache, args, op, by) ==
    LET key == StringifyArgs(args) IN
    IF CacheHit(ignoreCache, key)
    THEN st
    ELSE [st EXCEPT !.isLoading = TRUE,
                    !.calls = @ (+) SetToBag({[args |-> args, key |-> key, op |-> op, by |-> by]}),
                    !.nFetch = @ + 1]

ExecuteStart(st, ignoreCache, args, op, by) ==
    LET key == StringifyArgs(args) IN
    IF CacheHit(ignoreCache, key)
    THEN st
    ELSE [st EXCEPT !.isLoading = TRUE,
                    !.error = Null,
                    !.calls = @ (+) SetToBag({[args |-> args, key |-> key, op |-> op, by |-> by]}),
                    !.nFetch = @ + 1]


\* The promise of a call settles: a call of the user returns to the user, a
\* call of a binding resumes the binding's watchEffect in a later microtask.
Deliver(q, c, ok, data, err) ==
    IF c.by = 0 THEN q ELSE Append(q, AssignTask(c.by, ok, data))

Outcome(c, ok, data, err) ==
    IF c.by # 0 THEN NoRet
    ELSE IF ok THEN Returned(c.op, c.args, "resolved", data, Null)
    ELSE Returned(c.op, c.args, "rejected", DefaultValue, err)

\* ------------------------------------------------------------------ history
\* hist[args], recorded in the behaviours of Spec, since the last clear(),
\* clearOne(...args) or load(...args):
\*   val    the payload the calls execute(...args) resolve with, as long as
\*          no other fetch for args has succeeded since the first of them;
\*   old    a payload an execute(...args) resolved with before another
\*          fetch for args succeeded;
\*   again  a later execute(...args) returned val again;
\*   last   the payload of the last fetch for args that succeeded, since the
\*          last clear() or clearOne(...args).
Untracked == <<>>
NoRecord  == [val |-> NoData, old |-> NoData, again |-> FALSE, last |-> NoData]
NoHistory == [a \in argSpace |-> NoRecord]

Superseded(h) == IF h.old # NoData THEN h.old ELSE h.val

HistHit(args, data) ==
    IF DOMAIN hist = {} THEN hist
    ELSE IF hist[args].val = NoData
         THEN [hist EXCEPT ![args].val = data]
         ELSE [hist EXCEPT ![args].again = TRUE]

HistResolve(c, ok, data) ==
    IF DOMAIN hist = {} THEN hist
    ELSE IF c.op = "load"
         THEN [hist EXCEPT ![c.args] = [NoRecord EXCEPT !.last = data]]
         ELSE [hist EXCEPT ![c.args] =
                  [val |-> IF ok THEN data ELSE NoData,
                   old |-> Superseded(@),
                   again |-> FALSE,
                   last |-> data]]

HistClearOne(args) ==
    IF DOMAIN hist = {} THEN hist
    ELSE [hist EXCEPT ![args] = NoRecord]

HistLoad(args) ==
    IF DOMAIN hist = {} THEN hist
    ELSE [hist EXCEPT ![args] = [NoRecord EXCEPT !.last = hist[args].last]]

HistClear ==
    IF DOMAIN hist = {} THEN hist ELSE NoHistory

\* refs[b].fetches counts the invocations of the fetch function by binding b
\* as long as load, clear and clearOne have not been called; refs[b].disturbed
\* tells that one of them has been.
Disturb(rs) == [b \in 1..Len(rs) |-> [rs[b] EXCEPT !.fetches = 0, !.disturbed = TRUE]]

\* execute(...args) called by the user (line 206)
Execute(args) ==
    LET key == StringifyArgs(args)
        hit == CacheHit(FALSE, key)
        st  == ExecuteStart(EngineState, FALSE, args, "execute", 0)
    IN  /\ args \in argSpace
        /\ hit \/ nFetch < budget
        /\ isLoading' = st.isLoading
        /\ error' = st.error
        /\ calls' = st.calls
        /\ nFetch' = st.nFetch
        /\ ret' = IF hit THEN Returned("execute", args, "hit", Get(cache, key), Null)
                  ELSE Returned("execute", args, "pending", DefaultValue, Null)
        /\ hist' = IF hit THEN HistHit(args, Get(cache, key)) ELSE hist
        /\ UNCHANGED <<awaitVars, options, argSpace, budget, peer, now, triggerRef, cache, hooks, refs, mq, views>>

\* mutation: load does not ignore the cache
Load_Cached(args) ==
    LET st == ExecuteStart(EngineState, FALSE, args, "load", 0)
    IN  /\ args \in argSpace
        /\ nFetch < budget
        /\ isLoading' = st.isLoading
        /\ error' = st.error
        /\ calls' = st.calls
        /\ nFetch' = st.nFetch
        /\ refs' = Disturb(refs)
        /\ ret' = Returned("load", args, "pending", DefaultValue, Null)
        /\ hist' = HistLoad(args)
        /\ UNCHANGED <<awaitVars, options, argSpace, budget, peer, now, triggerRef, cache, hooks, mq, views>>

\* load(...args) called by the user (line 207)
Load(args) ==
    LET st == ExecuteStart(EngineState, TRUE, args, "load", 0)
    IN  /\ args \in argSpace
        /\ nFetch < budget
        /\ isLoading' = st.isLoading
        /\ error' = st.error
        /\ calls' = st.calls
        /\ nFetch' = st.nFetch
        /\ refs' = Disturb(refs)
        /\ ret' = Returned("load", args, "pending", DefaultValue, Null)
        /\ hist' = HistLoad(args)
        /\ UNCHANGED <<awaitVars, options, argSpace, budget, peer, now, triggerRef, cache, hooks, mq, views>>

\* request(...args) resolves with response: lines 153-166 and 174-177, and
\* lines 167-173 when a success handler throws inside the try block.
RequestResolve(c, response) ==
    LET data    == Stamp(Adapt(response))
        sThrows == Throws(hooks.success)
        eThrows == Throws(hooks.error)
        fThrows == Throws(hooks.finally)
        caught  == AdaptError(HandlerError)
        \* cache.value.set triggers the bindings that read this key
        refs1   == QueueJobs(refs, KeyDeps(refs, c.key))
        mq1     == QueueFlush(mq, refs1)
        \* triggerRef.value++ is reached only when no success handler threw
        refs2   == IF sThrows THEN refs1 ELSE QueueJobs(refs1, AllDeps(refs1))
        mq2     == QueueFlush(mq1, refs2)
        ok      == ~sThrows /\ ~fThrows
        thrown  == IF fThrows \/ eThrows THEN HandlerError ELSE caught
        fired   == Trigger("success", hooks.success, Payload(data, Null))
                   \o (IF sThrows THEN Trigger("error", hooks.error, Payload(NoData, caught))
                       ELSE <<>>)
                   \o Trigger("finally", hooks.finally, NoPayload)
        written == Set(cache, c.key, data)
        bumped  == IF sThrows THEN triggerRef ELSE triggerRef + 1
        seen    == <<Observe("success", isLoading, written, c.key, triggerRef)>>
                   \o (IF sThrows
                       THEN <<Observe("error", isLoading, written, c.key, triggerRef)>>
                       ELSE <<>>)
                   \o <<Observe("finally", FALSE, written, c.key, bumped)>>
    IN  /\ BagIn(c, calls)
        /\ response \in Responses
        /\ cache' = Set(cache, c.key, data)
        /\ views' = Invalidate(views)
        /\ triggerRef' = IF sThrows THEN triggerRef ELSE triggerRef + 1
        /\ error' = IF sThrows THEN caught ELSE error
        /\ isLoading' = FALSE
        /\ calls' = calls (-) SetToBag({c})
        /\ refs' = refs2
        /\ mq' = Deliver(mq2, c, ok, data, thrown)
        /\ ret' = [Outcome(c, ok, data, thrown) EXCEPT !.fired = fired, !.seen = seen]
        /\ hist' = HistResolve(c, ok, data)
        /\ UNCHANGED <<awaitVars, options, argSpace, budget, peer, now, hooks, nFetch>>

\* mutation: the finally block does not reset isLoading after a rejection
RequestReject_KeepLoading(c, err) ==
    LET adapted == AdaptError(err)
        eThrows == Throws(hooks.error)
        fThrows == Throws(hooks.finally)
        thrown  == IF fThrows \/ eThrows THEN HandlerError ELSE adapted
        fired   == Trigger("error", hooks.error, Payload(NoData, adapted))
                   \o Trigger("finally", hooks.finally, NoPayload)
        seen    == <<Observe("error", isLoading, cache, c.key, triggerRef),
                     Observe("finally", FALSE, cache, c.key, triggerRef)>>
    IN  /\ BagIn(c, calls)
        /\ err \in RawErrors
        /\ error' = adapted
        /\ calls' = calls (-) SetToBag({c})
        /\ mq' = Deliver(mq, c, FALSE, DefaultValue, thrown)
        /\ ret' = [Outcome(c, FALSE, DefaultValue, thrown) EXCEPT !.fired = fired,
                                                                  !.seen = seen]
        /\ UNCHANGED <<awaitVars, options, argSpace, budget, peer, now, isLoading, triggerRef, cache, hooks, refs, views, nFetch, hist>>

\* request(...args) rejects with err: lines 167-177
RequestReject(c, err) ==
    LET adapted == AdaptError(err)
        eThrows == Throws(hooks.error)
        fThrows == Throws(hooks.finally)
        thrown  == IF fThrows \/ eThrows THEN HandlerError ELSE adapted
        fired   == Trigger("error", hooks.error, Payload(NoData, adapted))
                   \o Trigger("finally", hooks.finally, NoPayload)
        seen    == <<Observe("error", isLoading, cache, c.key, triggerRef),
                     Observe("finally", FALSE, cache, c.key, triggerRef)>>
    IN  /\ BagIn(c, calls)
        /\ err \in RawErrors
        /\ error' = adapted
        /\ isLoading' = FALSE
        /\ calls' = calls (-) SetToBag({c})
        /\ mq' = Deliver(mq, c, FALSE, DefaultValue, thrown)
        /\ ret' = [Outcome(c, FALSE, DefaultValue, thrown) EXCEPT !.fired = fired,
                                                                  !.seen = seen]
        /\ UNCHANGED <<awaitVars, options, argSpace, budget, peer, now, triggerRef, cache, hooks, refs, views, nFetch, hist>>

\* mutation: clear() drops the calls in flight
Clear_Cancels ==
    LET refs1 == QueueJobs(Disturb(refs), IF cache # <<>> THEN AllDeps(refs) ELSE {})
    IN  /\ cache' = <<>>
        /\ calls' = EmptyBag
        /\ refs' = refs1
        /\ mq' = QueueFlush(mq, refs1)
        /\ views' = IF cache # <<>> THEN Invalidate(views) ELSE views
        /\ ret' = Returned("clear", <<>>, "void", DefaultValue, Null)
        /\ hist' = HistClear
        /\ UNCHANGED <<awaitVars, options, argSpace, budget, peer, now, isLoading, error, triggerRef, hooks,
                       nFetch>>

\* clear() (line 204): Map.clear triggers its dependents when it had entries
Clear ==
    LET refs1 == QueueJobs(Disturb(refs), IF cache # <<>> THEN AllDeps(refs) ELSE {})
    IN  /\ cache' = <<>>
        /\ refs' = refs1
        /\ mq' = QueueFlush(mq, refs1)
        /\ views' = IF cache # <<>> THEN Invalidate(views) ELSE views
        /\ ret' = Returned("clear", <<>>, "void", DefaultValue, Null)
        /\ hist' = HistClear
        /\ UNCHANGED <<awaitVars, options, argSpace, budget, peer, now, isLoading, error, triggerRef, hooks,
                       calls, nFetch>>

\* clearOne(...args) (line 205): Map.delete triggers the dependents of the
\* key when the key was present
ClearOne(args) ==
    LET key == StringifyArgs(args)
        refs1 == QueueJobs(Disturb(refs), IF Has(cache, key) THEN KeyDeps(refs, key) ELSE {})
    IN  /\ args \in argSpace
        /\ cache' = Delete(cache, key)
        /\ refs' = refs1
        /\ mq' = QueueFlush(mq, refs1)
        /\ views' = IF Has(cache, key) THEN Invalidate(views) ELSE views
        /\ ret' = Returned("clearOne", args, IF Has(cache, key) THEN "true" ELSE "false",
                         DefaultValue, Null)
        /\ hist' = HistClearOne(args)
        /\ UNCHANGED <<awaitVars, options, argSpace, budget, peer, now, isLoading, error, triggerRef, hooks,
                       calls, nFetch>>

\* ------------------------------------------------------------------- getRef
\* One run of the watchEffect of binding b up to its await (lines 183-186):
\* it reads triggerRef, calls execute(false, ...args), and on a cache hit its
\* continuation is queued at once.
RunEffect(st, b) ==
    LET r   == st.refs[b]
        st1 == [st EXCEPT !.refs[b].queued = FALSE]
        st2 == ExecuteStart(st1, FALSE, r.args, "getRef", b)
    IN  IF CacheHit(FALSE, r.key)
        THEN [st2 EXCEPT !.mq = Append(@, AssignTask(b, TRUE, Get(cache, r.key)))]
        ELSE [st2 EXCEPT !.refs[b].fetches = IF r.disturbed THEN @ ELSE @ + 1]

\* getRef(defaultValue, ...args) (lines 180-193): watchEffect runs the effect
\* synchronously once.
GetRef(args) ==
    LET b   == Len(refs) + 1
        new == [args |-> args, key |-> StringifyArgs(args), result |-> DefaultValue,
                queued |-> FALSE, fetches |-> 0, disturbed |-> FALSE, settled |-> FALSE]
        st  == RunEffect([EngineState EXCEPT !.refs = Append(refs, new)], b)
    IN  /\ args \in argSpace
        /\ Len(refs) < MaxRefs
        /\ st.nFetch <= budget
        /\ isLoading' = st.isLoading
        /\ error' = st.error
        /\ calls' = st.calls
        /\ nFetch' = st.nFetch
        /\ refs' = st.refs
        /\ mq' = st.mq
        /\ ret' = NoRet
        /\ UNCHANGED <<awaitVars, options, argSpace, budget, peer, now, triggerRef, cache, hooks, views, hist>>

\* flushJobs: the scheduler's microtask runs every queued watchEffect.
RECURSIVE RunQueued(_, _)
RunQueued(st, b) ==
    IF b > Len(st.refs) THEN st
    ELSE RunQueued(IF st.refs[b].queued THEN RunEffect(st, b) ELSE st, b + 1)

FlushJobs ==
    LET st == RunQueued([EngineState EXCEPT !.mq = Tail(mq)], 1)
    IN  /\ mq # <<>>
        /\ Head(mq).t = "flush"
        /\ st.nFetch <= budget
        /\ isLoading' = st.isLoading
        /\ error' = st.error
        /\ calls' = st.calls
        /\ nFetch' = st.nFetch
        /\ refs' = st.refs
        /\ mq' = st.mq
        /\ ret' = NoRet
        /\ UNCHANGED <<awaitVars, options, argSpace, budget, peer, now, triggerRef, cache, hooks, views, hist>>

\* mutation: a rejected execute leaves the binding as it was
Resume_Keep ==
    /\ mq # <<>>
    /\ Head(mq).t = "assign"
    /\ LET m == Head(mq)
       IN  refs' = [refs EXCEPT ![m.ref].result = IF m.ok THEN m.data ELSE @,
                                ![m.ref].settled = TRUE]
    /\ mq' = Tail(mq)
    /\ ret' = NoRet
    /\ UNCHANGED <<awaitVars, options, argSpace, budget, peer, now, isLoading, error, triggerRef, cache, hooks,
                   calls, views, nFetch, hist>>

\* The watchEffect resumes after "await execute(...)" (lines 186-189).
Resume ==
    /\ mq # <<>>
    /\ Head(mq).t = "assign"
    /\ LET m == Head(mq)
       IN  refs' = [refs EXCEPT ![m.ref].result = IF m.ok THEN m.data ELSE DefaultValue,
                                ![m.ref].settled = TRUE]
    /\ mq' = Tail(mq)
    /\ ret' = NoRet
    /\ UNCHANGED <<awaitVars, options, argSpace, budget, peer, now, isLoading, error, triggerRef, cache, hooks,
                   calls, views, nFetch, hist>>

\* ---------------------------------------------------------------- the hooks
NumHandlers == Len(hooks.success) + Len(hooks.error) + Len(hooks.finally)

Subscribe(hook, h) ==
    /\ h \in Handlers
    /\ NumHandlers < MaxHandlers
    /\ hooks' = [hooks EXCEPT ![hook] = On(@, h)]
    /\ hooks' # hooks
    /\ ret' = NoRet
    /\ UNCHANGED <<awaitVars, options, argSpace, budget, peer, now, isLoading, error, triggerRef, cache,
                   calls, refs, mq, views, nFetch, hist>>

OnSuccess(h) == Subscribe("success", h)    \* line 210
OnError(h)   == Subscribe("error", h)      \* line 211
OnFinally(h) == Subscribe("finally", h)    \* line 212

\* --------------------------------------------------- createEventHook, alone
\* The three hooks of the engine used through the interface of
\* createEventHook: on, off and trigger.  hist[hook][h] counts the calls
\* on(h) since the last off(h), and tells whether off(h) removed h since.
HookNames == {"success", "error", "finally"}
NoRegs == [hook \in HookNames |-> [h \in Handlers |-> [on |-> 0, off |-> FALSE]]]
TriggerPayloads == {Payload(Data(1, NoDate), Null)}

HookOn(hook, h) ==
    /\ hist[hook][h].on < MaxRegs
    /\ hooks' = [hooks EXCEPT ![hook] = On(@, h)]
    /\ hist' = [hist EXCEPT ![hook][h] = [on |-> @.on + 1, off |-> FALSE]]
    /\ ret' = NoRet
    /\ UNCHANGED <<awaitVars, options, argSpace, budget, peer, now, isLoading, error, triggerRef, cache,
                   calls, refs, mq, views, nFetch>>

HookOff(hook, h) ==
    /\ hooks' = [hooks EXCEPT ![hook] = Off(@, h)]
    /\ hist' = [hist EXCEPT ![hook][h] = [on |-> 0, off |-> @.on > 0 \/ @.off]]
    /\ ret' = NoRet
    /\ UNCHANGED <<awaitVars, options, argSpace, budget, peer, now, isLoading, error, triggerRef, cache,
                   calls, refs, mq, views, nFetch>>

HookTrigger(hook, payload) ==
    /\ ret' = [NoRet EXCEPT !.op = "trigger",
                            !.kind = IF Throws(hooks[hook]) THEN "threw" ELSE "void",
                            !.err = IF Throws(hooks[hook]) THEN HandlerError ELSE Null,
                            !.fired = Trigger(hook, hooks[hook], payload)]
    /\ UNCHANGED <<awaitVars, options, argSpace, budget, peer, now, isLoading, error, triggerRef, cache, hooks,
                   calls, refs, mq, views, nFetch, hist>>

\* ------------------------------------------------------------ getGroupByArg
\* mutation: the entries that have expired are left out
GroupFilter_Fresh(c, index, arg) ==
    LET Match(e) == /\ ~IsExpired(e.data)
                    /\ \/ index = NoIndex
                       \/ JSONStringify(ElementAt(JSONParse(e.key), index)) = JSONStringify(arg)
        kept == SelectSeq(c, Match)
    IN  [i \in 1..Len(kept) |-> kept[i].data]

\* the filter of lines 196-198 over the entries of the cache
GroupFilter(c, index, arg) ==
    LET Match(e) == \/ index = NoIndex
                    \/ JSONStringify(ElementAt(JSONParse(e.key), index)) = JSONStringify(arg)
        kept == SelectSeq(c, Match)
    IN  [i \in 1..Len(kept) |-> kept[i].data]

\* the calls getGroupByArg(), getGroupByArg(index) and getGroupByArg(index, arg)
\* the user makes
N1 == Num(1)
S1 == Str(<<"1">>)
X1 == Str(<<"x">>)
Y1 == Str(<<"y">>)
GroupQueries ==
    {<<NoIndex, Undefined>>, <<0, N1>>, <<0, S1>>, <<1, X1>>}

\* getGroupByArg(index, arg): a computed, evaluated at its first read
GetGroupByArg(index, arg) ==
    /\ <<index, arg>> \in GroupQueries
    /\ Len(views) < MaxViews
    /\ views' = Append(views, [index |-> index, arg |-> arg, dirty |-> TRUE, value |-> <<>>,
                            evals |-> 0])
    /\ ret' = NoRet
    /\ UNCHANGED <<awaitVars, options, argSpace, budget, peer, now, isLoading, error, triggerRef, cache, hooks,
                   calls, refs, mq, nFetch, hist>>

\* what reading view.value yields: a computed re-evaluates when it is dirty
ViewValue(v) ==
    IF views[v].dirty THEN GroupFilter(cache, views[v].index, views[v].arg)
    ELSE views[v].value

\* view.value is read; the computed keeps what it evaluated
ReadView(v) ==
    /\ v \in 1..Len(views)
    /\ views[v].dirty
    /\ views' = [views EXCEPT ![v].dirty = FALSE, ![v].value = ViewValue(v),
                           ![v].evals = IF @ < 2 THEN @ + 1 ELSE @]
    /\ ret' = NoRet
    /\ UNCHANGED <<awaitVars, options, argSpace, budget, peer, now, isLoading, error, triggerRef, cache, hooks,
                   calls, refs, mq, nFetch, hist>>

\* -------------------------------------------------------------------- clock
\* Time advances between tasks of the event loop, not between microtasks.
Tick ==
    /\ mq = <<>>
    /\ now + TickMs <= MaxTime
    /\ now' = now + TickMs
    /\ ret' = NoRet
    /\ UNCHANGED <<awaitVars, options, argSpace, budget, peer, isLoading, error, triggerRef, cache, hooks,
                   calls, refs, mq, views, nFetch, hist>>

\* ------------------------------------------------------- useAwaitingEvent
NoTimer == 0                       \* timer holds no id (undefined / null)
AlreadyPerformed == "The operation is already performed"
DelayChanged == "The timer is canceled due to a change in delay"
Forcibly == "The timer is canceled forcibly"
WaitData == {Str(<<"a">>)}                         \* execute("a")
Timeouts == {InitialTimeout, InitialTimeout + TickMs}

Pending == [state |-> "pending", data |-> Undefined, err |-> Null]

\* setTimeout(callback, delay): the id returned is the index of the new timer
SetTimeout(ts, due, p, data) ==
    Append(ts, [due |-> due, p |-> p, data |-> data, armed |-> TRUE])
ClearTimeout(ts, id) ==
    IF id \in 1..Len(ts) THEN [ts EXCEPT ![id].armed = FALSE] ELSE ts

\* resolve and reject of a promise: only the first of them has an effect
\* mutation: the timer callback calls resolve() without the data
ResolveP_NoData(ps, p, data) ==
    IF ps[p].state = "pending"
    THEN [ps EXCEPT ![p] = [state |-> "resolved", data |-> Undefined, err |-> Null]]
    ELSE ps
ResolveP(ps, p, data) ==
    IF ps[p].state = "pending"
    THEN [ps EXCEPT ![p] = [state |-> "resolved", data |-> data, err |-> Null]]
    ELSE ps
RejectP(ps, p, err) ==
    IF ps[p].state = "pending"
    THEN [ps EXCEPT ![p] = [state |-> "rejected", data |-> Undefined, err |-> err]]
    ELSE ps

\* watch(source, callback) of promise p; old is the value the watcher saw last
Watch(ws, source, old, p) ==
    Append(ws, [source |-> source, old |-> old, p |-> p, queued |-> FALSE])
\* source.value has been assigned a different value: its watchers are queued
TriggerWatch(ws, source) ==
    [i \in 1..Len(ws) |->
        IF ws[i].source = source THEN [ws[i] EXCEPT !.queued = TRUE] ELSE ws[i]]

\* "if (timer)": a ref is an object and always truthy (part_007:49,62); the
\* plain variable is falsy while it holds null (part_006:49,58)
TimerTruthy == timerIsRef \/ timer # NoTimer

\* hist[p], recorded in the behaviours of SpecAwait: the data, instant and
\* delay of the execute call that created promise p, and whether cancel()
\* has been called while p was pending
Waited(data) == [data |-> data, at |-> now, delay |-> timeout, cancelled |-> FALSE]
HistCancel ==
    [p \in 1..Len(hist) |->
        IF promises[p].state = "pending" THEN [hist[p] EXCEPT !.cancelled = TRUE]
        ELSE hist[p]]

\* mutation: execute does not look at isWaiting
Busy_Never == FALSE
Busy == isWaiting

\* execute(data), lines 37-59
AwaitExecute(data) ==
    /\ Len(promises) < MaxWaits \/ Busy
    /\ IF Busy
       THEN /\ ret' = Returned("wait", <<>>, "rejected", DefaultValue, AlreadyPerformed)
            /\ UNCHANGED <<awaitVars, hist>>
       ELSE LET p  == Len(promises) + 1
                id == Len(timers) + 1
                w0 == IF timerIsRef /\ timer # id
                      THEN TriggerWatch(watchers, "timer") ELSE watchers
                w1 == Watch(w0, "timeout", timeout, p)
            IN /\ isWaiting' = TRUE
               /\ promises' = Append(promises, Pending)
               /\ timers' = SetTimeout(timers, now + timeout, p, data)
               /\ timer' = id
               /\ watchers' = IF timerIsRef THEN Watch(w1, "timer", id, p) ELSE w1
               /\ hist' = Append(hist, Waited(data))
               /\ ret' = Returned("wait", <<Num(p)>>, "pending", DefaultValue, Null)
               /\ UNCHANGED <<timerIsRef, timeout>>
    /\ UNCHANGED <<apiVars, now>>

\* cancel(), lines 61-67
AwaitCancel ==
    /\ IF TimerTruthy
       THEN /\ timers' = ClearTimeout(timers, timer)
            /\ isWaiting' = FALSE
            /\ timer' = NoTimer
            /\ watchers' = IF timerIsRef /\ timer # NoTimer
                           THEN TriggerWatch(watchers, "timer") ELSE watchers
       ELSE UNCHANGED <<timers, isWaiting, timer, watchers>>
    /\ hist' = HistCancel
    /\ ret' = Returned("cancel", <<>>, "void", DefaultValue, Null)
    /\ UNCHANGED <<timerIsRef, timeout, promises, apiVars, now>>

\* the user assigns timeout.value = t
AssignTimeout(t) ==
    /\ timeout' = t
    /\ watchers' = IF t # timeout THEN TriggerWatch(watchers, "timeout") ELSE watchers
    /\ ret' = Returned("timeout", <<Num(t)>>, "void", DefaultValue, Null)
    /\ UNCHANGED <<timerIsRef, isWaiting, timer, timers, promises, hist, apiVars, now>>

\* The scheduler flush (a microtask): every queued watcher whose source holds
\* another value than the one it saw last runs its callback, in the order
\* the watchers were created (lines 48-57).
SourceValue(source) == IF source = "timeout" THEN timeout ELSE timer
Runs(i) == watchers[i].queued /\ SourceValue(watchers[i].source) # watchers[i].old
Rejects(i) == Runs(i) /\ (watchers[i].source = "timer" \/ TimerTruthy)
FlushWatchers ==
    /\ \E i \in 1..Len(watchers) : watchers[i].queued
    /\ timers' = IF \E i \in 1..Len(watchers) : Rejects(i) /\ watchers[i].source = "timeout"
                 THEN ClearTimeout(timers, timer) ELSE timers
    /\ promises' =
        [p \in 1..Len(promises) |->
            IF \E i \in 1..Len(watchers) : Rejects(i) /\ watchers[i].p = p
            THEN LET first == CHOOSE i \in 1..Len(watchers) :
                                  /\ Rejects(i) /\ watchers[i].p = p
                                  /\ \A j \in 1..(i - 1) : ~(Rejects(j) /\ watchers[j].p = p)
                 IN RejectP(promises, p,
                            IF watchers[first].source = "timeout"
                            THEN DelayChanged ELSE Forcibly)[p]
            ELSE promises[p]]
    /\ watchers' = [i \in 1..Len(watchers) |->
                       IF watchers[i].queued
                       THEN [watchers[i] EXCEPT !.queued = FALSE,
                                                !.old = SourceValue(watchers[i].source)]
                       ELSE watchers[i]]
    /\ ret' = NoRet
    /\ UNCHANGED <<timerIsRef, isWaiting, timeout, timer, hist, apiVars, now>>

\* The callback of setTimeout (lines 43-46), a task: it runs once its delay
\* has elapsed and no microtask is pending.
TimerFires(id) ==
    /\ id \in 1..Len(timers)
    /\ timers[id].armed
    /\ timers[id].due <= now
    /\ \A i \in 1..Len(watchers) : ~watchers[i].queued
    /\ timers' = [timers EXCEPT ![id].armed = FALSE]
    /\ isWaiting' = FALSE
    /\ promises' = ResolveP(promises, timers[id].p, timers[id].data)
    /\ ret' = NoRet
    /\ UNCHANGED <<timerIsRef, timeout, timer, watchers, hist, apiVars, now>>

\* time passes while a timer is armed and not yet due
Elapse ==
    /\ \E id \in 1..Len(timers) : timers[id].armed /\ timers[id].due > now
    /\ \A i \in 1..Len(watchers) : ~watchers[i].queued
    /\ now' = now + TickMs
    /\ ret' = NoRet
    /\ UNCHANGED <<awaitVars, hist, apiVars>>

\* useAwaitingEvent(initialTimeout), lines 32-35
UseAwaitingEvent(initialTimeout) ==
    /\ isWaiting = FALSE
    /\ timeout = initialTimeout
    /\ timer = NoTimer
    /\ timers = <<>>
    /\ promises = <<>>
    /\ watchers = <<>>

\* ----------------------------------------------------------- specification
KeyArgs == {<<N1>>, <<S1>>}      \* execute(1) and execute("1")

NoOptions == [cacheTime |-> NoCacheTime, adapter |-> FALSE, errorAdapter |-> FALSE]
AdapterOptions == [cacheTime |-> NoCacheTime, adapter |-> TRUE, errorAdapter |-> TRUE]
OptionSets ==
    { NoOptions, [cacheTime |-> 1, adapter |-> TRUE, errorAdapter |-> TRUE] }

\* what one call of useApi creates (lines 123-130)
Fresh ==
    [isLoading |-> FALSE, error |-> Null, triggerRef |-> 0, cache |-> <<>>,
     hooks |-> [success |-> <<>>, error |-> <<>>, finally |-> <<>>],
     calls |-> EmptyBag, refs |-> <<>>, mq |-> <<>>, views |-> <<>>, nFetch |-> 0]

ConstructApi ==
    /\ peer = Fresh
    /\ now = 0
    /\ isLoading = FALSE
    /\ error = Null
    /\ triggerRef = 0
    /\ cache = <<>>
    /\ hooks = [success |-> <<>>, error |-> <<>>, finally |-> <<>>]
    /\ calls = EmptyBag
    /\ refs = <<>>
    /\ mq = <<>>
    /\ views = <<>>
    /\ nFetch = 0
    /\ ret = NoRet

Construct ==
    /\ ConstructApi
    /\ timerIsRef = TRUE
    /\ UseAwaitingEvent(InitialTimeout)

\* The engine with its hooks, without cacheTime.
Init ==
    /\ options = AdapterOptions
    /\ argSpace = KeyArgs
    /\ budget = MaxCalls
    /\ hist = NoHistory
    /\ Construct

\* what changes the cache: load, the settlements and the two clears
Fetching ==
    \/ \E args \in argSpace : Load(args)
    \/ \E c \in BagToSet(calls), response \in Responses : RequestResolve(c, response)
    \/ \E c \in BagToSet(calls), err \in RawErrors : RequestReject(c, err)
    \/ Clear
    \/ \E args \in argSpace : ClearOne(args)

Engine ==
    \/ \E args \in argSpace : Execute(args)
    \/ Fetching

Next ==
    \/ Engine
    \/ \E h \in Handlers : OnSuccess(h)
    \/ \E h \in Handlers : OnError(h)
    \/ \E h \in Handlers : OnFinally(h)

Spec == Init /\ [][Next]_vars

\* The engine, every invocation of the fetch function settling eventually.
CallSpace ==
    {[args |-> a, key |-> StringifyArgs(a), op |-> o, by |-> 0] :
        a \in KeyArgs, o \in {"execute", "load"}}
Settle(c) ==
    \/ \E response \in Responses : RequestResolve(c, response)
    \/ \E err \in RawErrors : RequestReject(c, err)

InitSettle ==
    /\ options = AdapterOptions
    /\ argSpace = KeyArgs
    /\ budget = MaxCalls
    /\ hist = Untracked
    /\ Construct

SpecSettle == InitSettle /\ [][Engine]_vars /\ \A c \in CallSpace : WF_vars(Settle(c))

\* useAwaitingEvent alone, in both versions of its source.  The event loop
\* runs the pending microtasks, and after every task of the user it runs the
\* timers that are due: however often the user's tasks leave microtasks
\* behind, a timer that is due again and again does fire.
InitAwait ==
    /\ options = NoOptions
    /\ argSpace = KeyArgs
    /\ budget = 0
    /\ hist = <<>>
    /\ ConstructApi
    /\ timerIsRef \in BOOLEAN
    /\ UseAwaitingEvent(InitialTimeout)

NextAwait ==
    \/ \E data \in WaitData : AwaitExecute(data)
    \/ AwaitCancel
    \/ \E t \in Timeouts : AssignTimeout(t)
    \/ FlushWatchers
    \/ \E id \in 1..MaxWaits : TimerFires(id)
    \/ Elapse

SpecAwait ==
    /\ InitAwait /\ [][NextAwait]_vars
    /\ WF_vars(FlushWatchers)
    /\ \A id \in 1..MaxWaits : SF_vars(TimerFires(id))
    /\ SF_vars(Elapse)

\* createEventHook alone.
InitHook ==
    /\ options = NoOptions
    /\ argSpace = KeyArgs
    /\ budget = 0
    /\ hist = NoRegs
    /\ Construct

NextHook ==
    \/ \E hook \in HookNames, h \in Handlers : HookOn(hook, h)
    \/ \E hook \in HookNames, h \in Handlers : HookOff(hook, h)
    \/ \E hook \in HookNames, payload \in TriggerPayloads : HookTrigger(hook, payload)

SpecHook == InitHook /\ [][NextHook]_vars

\* The engine with the clock.
InitPlain ==
    /\ options \in OptionSets
    /\ argSpace = KeyArgs
    /\ budget = MaxCalls
    /\ hist = Untracked
    /\ Construct

NextTime ==
    \/ Engine
    \/ Tick

SpecTime == InitPlain /\ [][NextTime]_vars

\* The engine constructed with cacheTime: 0, as time passes.
ZeroOptions == [cacheTime |-> 0, adapter |-> FALSE, errorAdapter |-> FALSE]

InitZero ==
    /\ options = ZeroOptions
    /\ argSpace = KeyArgs
    /\ budget = MaxCalls
    /\ hist = Untracked
    /\ Construct

SpecZero == InitZero /\ [][NextTime]_vars

\* ------------------------------------------------------- kinds of payload
\* What the fetch function resolves with, as JavaScript sees it: a plain
\* object or an array with their own enumerable properties in order (the
\* items of an array are its properties "0", "1", ...), or a primitive.
JsObject(props) == [kind |-> "object", props |-> props, prim |-> Undefined]
JsArray(items) ==
    [kind |-> "array",
     props |-> [i \in 1..Len(items) |-> [name |-> ToString(i - 1), value |-> items[i]]],
     prim |-> Undefined]
JsPrimitive(v) == [kind |-> "primitive", props |-> <<>>, prim |-> v]
DateOf(ms) == [t |-> "date", n |-> ms, s |-> <<>>]

Items(n) == [i \in 1..n |-> Num(i)]
Fields(n) == [i \in 1..n |-> [name |-> "p" \o ToString(i), value |-> Num(i)]]
Payloads ==
    {JsObject(Fields(n)) : n \in 0..MaxItems}
        \cup {JsArray(Items(n)) : n \in 0..MaxItems}
        \cup {JsPrimitive(Num(n)) : n \in 0..MaxItems}
        \cup {JsPrimitive(Str(<<"a">>))}

\* obj[name] = value: an existing property keeps its position
Put(props, name, value) ==
    IF \E i \in 1..Len(props) : props[i].name = name
    THEN [i \in 1..Len(props) |->
            IF props[i].name = name THEN [name |-> name, value |-> value] ELSE props[i]]
    ELSE Append(props, [name |-> name, value |-> value])

\* the own enumerable properties "...v" copies: those of an object or an
\* array, the characters of a string, none of a number
OwnEnumerable(v) ==
    IF v.kind = "primitive"
    THEN [i \in 1..Len(v.prim.s) |-> [name |-> ToString(i - 1), value |-> Str(<<v.prim.s[i]>>)]]
    ELSE v.props

\* {...adaptedData, fetchedAt: new Date()} (line 158): an object literal,
\* whatever adaptedData is
Spread(v, at) ==
    JsObject(Put(OwnEnumerable(v), "fetchedAt", DateOf(at)))

\* The user's adapter, an example that changes the kind of the payload:
\* r => typeof r === "object" ? Object.keys(r).length : [r]
AdapterJs(response) ==
    IF response.kind = "primitive" THEN JsArray(<<response.prim>>)
    ELSE JsPrimitive(Num(Len(response.props)))

\* adaptedData of lines 155-159
AdaptedData(response) ==
    LET adapted == IF options.adapter THEN AdapterJs(response) ELSE response
    IN  IF Truthy(options.cacheTime) THEN Spread(adapted, now) ELSE adapted

\* lines 153-165 for a fetch of execute(...args) that resolves with response:
\* the payload is written, handed to the success hook and returned
ResolvePayload(args, response) ==
    LET adaptedData == AdaptedData(response)
    IN  /\ args \in argSpace
        /\ response \in Payloads
        /\ triggerRef < MaxCalls
        /\ cache' = Set(cache, StringifyArgs(args), adaptedData)
        /\ triggerRef' = triggerRef + 1
        /\ ret' = [Returned("execute", args, "resolved", adaptedData, Null)
                     EXCEPT !.fired = Trigger("success", hooks.success,
                                              Payload(adaptedData, Null))]
        /\ UNCHANGED <<awaitVars, options, argSpace, budget, peer, now, isLoading, error,
                       hooks, calls, refs, mq, views, nFetch, hist>>

PayloadOptions ==
    [cacheTime : {NoCacheTime, 0, 1}, adapter : BOOLEAN, errorAdapter : {FALSE}]

InitPayload ==
    /\ options \in PayloadOptions
    /\ argSpace = KeyArgs
    /\ budget = 0
    /\ hist = Untracked
    /\ Construct

NextPayload ==
    \/ \E args \in argSpace, response \in Payloads : ResolvePayload(args, response)
    \/ Tick

SpecPayload == InitPayload /\ [][NextPayload]_vars

\* The engine with getRef bindings.
InitRef ==
    /\ options \in OptionSets
    /\ argSpace = KeyArgs
    /\ budget = MaxRefCalls
    /\ hist = Untracked
    /\ Construct

NextRef ==
    \/ Engine
    \/ \E args \in argSpace : GetRef(args)
    \/ FlushJobs
    \/ Resume

SpecRef == InitRef /\ [][NextRef]_vars

\* Two engines.  The operations the user calls are closures over the state
\* their own call of useApi created: the variables hold the state of the
\* engine whose operations are being called, peer the state of the other one.
\* mutation: the Map is created once, outside useApi
SwitchEngine_SharedCache ==
    /\ peer' = [isLoading |-> isLoading, error |-> error, triggerRef |-> triggerRef,
                cache |-> peer.cache, hooks |-> hooks, calls |-> calls, refs |-> refs,
                mq |-> mq, views |-> views, nFetch |-> nFetch]
    /\ isLoading' = peer.isLoading
    /\ error' = peer.error
    /\ triggerRef' = peer.triggerRef
    /\ cache' = cache
    /\ hooks' = peer.hooks
    /\ calls' = peer.calls
    /\ refs' = peer.refs
    /\ mq' = peer.mq
    /\ views' = peer.views
    /\ nFetch' = peer.nFetch
    /\ ret' = Returned("switch", <<>>, "void", DefaultValue, Null)
    /\ UNCHANGED <<awaitVars, options, argSpace, budget, now, hist>>

\* the user turns to the operations of the other engine
SwitchEngine ==
    /\ peer' = [isLoading |-> isLoading, error |-> error, triggerRef |-> triggerRef,
                cache |-> cache, hooks |-> hooks, calls |-> calls, refs |-> refs,
                mq |-> mq, views |-> views, nFetch |-> nFetch]
    /\ isLoading' = peer.isLoading
    /\ error' = peer.error
    /\ triggerRef' = peer.triggerRef
    /\ cache' = peer.cache
    /\ hooks' = peer.hooks
    /\ calls' = peer.calls
    /\ refs' = peer.refs
    /\ mq' = peer.mq
    /\ views' = peer.views
    /\ nFetch' = peer.nFetch
    /\ ret' = Returned("switch", <<>>, "void", DefaultValue, Null)
    /\ UNCHANGED <<awaitVars, options, argSpace, budget, now, hist>>

InitTwo ==
    /\ options = NoOptions
    /\ argSpace = {<<N1>>}
    /\ budget = MaxTwoCalls
    /\ hist = Untracked
    /\ Construct

NextTwo ==
    \/ NextRef
    \/ SwitchEngine

SpecTwo == InitTwo /\ [][NextTwo]_vars

\* The getRef bindings while the cache changes, with the microtask queue
\* always drained: a microtask at the head of the queue runs before the event
\* loop goes on.
InitLive ==
    /\ options = NoOptions
    /\ argSpace = KeyArgs
    /\ budget = MaxLiveCalls
    /\ hist = Untracked
    /\ Construct

NextLive ==
    \/ Fetching
    \/ \E args \in argSpace : GetRef(args)
    \/ FlushJobs
    \/ Resume

SpecLive == InitLive /\ [][NextLive]_vars /\ WF_vars(FlushJobs) /\ WF_vars(Resume)

\* The getGroupByArg views while the cache changes, the fetch function
\* called with two arguments.
GroupArgs == {<<N1, X1>>, <<Num(2), Y1>>}

InitGroup ==
    /\ options = NoOptions
    /\ argSpace = GroupArgs
    /\ budget = MaxGroupCalls
    /\ hist = Untracked
    /\ Construct

NextGroup ==
    \/ Fetching
    \/ \E q \in GroupQueries : GetGroupByArg(q[1], q[2])
    \/ \E v \in 1..Len(views) : ReadView(v)

SpecGroup == InitGroup /\ [][NextGroup]_vars

\* ======================================================================
\* Properties
\* ======================================================================
KeyOf(args) == StringifyArgs(args)

\* C1 as stated: with no cacheTime, once an execute(A) has resolved to V
\* and no clear(), clearOne(A) or load(A) happened since, every later
\* execute(A) is served V from the cache without a fetch.
C1_HitEquivalence_AsStated ==
    [][\A args \in argSpace :
          (~Truthy(options.cacheTime) /\ Execute(args))
              => /\ hist[args].val # NoData =>
                       (ret'.kind = "hit" /\ ret'.data = hist[args].val /\ nFetch' = nFetch)
                 /\ hist[args].old # NoData =>
                       (ret'.kind = "hit" /\ ret'.data = hist[args].old /\ nFetch' = nFetch)]_vars

\* C1 amended: the same, provided also that no other fetch for A (one that
\* was already in flight) has succeeded since the execute(A) resolved.
C1_HitEquivalence ==
    [][\A args \in argSpace :
          (~Truthy(options.cacheTime) /\ hist[args].val # NoData /\ Execute(args))
              => (ret'.kind = "hit" /\ ret'.data = hist[args].val /\ nFetch' = nFetch)]_vars

\* an execute(A) returned from the cache the payload an earlier execute(A)
\* had resolved with
C1_Witness ==
    /\ ~Truthy(options.cacheTime)
    /\ ret.op = "execute"
    /\ ret.kind = "hit"
    /\ hist[ret.args].again
    /\ hist[ret.args].val = ret.data

\* C3: a call that rejects leaves the cache as it was, and error holds the
\* reason the call rejected with.
C3_IsolationOnFailure ==
    [][ret'.kind = "rejected" => (cache' = cache /\ error' = ret'.err)]_vars

\* C4: isLoading is true whenever an execution is suspended at its fetch.
C4_LoadingWhileInFlight ==
    calls # EmptyBag => isLoading

\* C8: clearOne(A) removes the entry of A and nothing else, clear() leaves
\* the cache empty, and neither raises an error, whether or not the entry
\* exists.
Keys == {KeyOf(a) : a \in argSpace}

C8_ClearSemantics ==
    [][/\ \A args \in argSpace :
            ClearOne(args) =>
                /\ ~Has(cache', KeyOf(args))
                /\ \A k \in Keys \ {KeyOf(args)} :
                      /\ Has(cache', k) <=> Has(cache, k)
                      /\ Has(cache, k) => Get(cache', k) = Get(cache, k)
                /\ ~Has(cache, KeyOf(args)) => cache' = cache
                /\ ret'.err = Null
       /\ Clear => (cache' = <<>> /\ ret'.err = Null)]_vars

\* clearOne removed an entry and left another one in the cache
C8_Witness ==
    /\ ret.op = "clearOne"
    /\ ret.kind = "true"
    /\ cache # <<>>

\* C2: load(A) invokes the fetch function exactly once whatever the cache
\* holds for A, and when that fetch succeeds the entry of A is the new
\* adapted result.
C2_Bypass ==
    [][/\ \A args \in argSpace :
            Load(args) =>
                /\ nFetch' = nFetch + 1
                /\ \E c \in BagToSet(calls') :
                      /\ c.args = args /\ c.op = "load"
                      /\ CopiesIn(c, calls') = CopiesIn(c, calls) + 1
       /\ \A c \in BagToSet(calls), response \in Responses :
            (c.op = "load" /\ RequestResolve(c, response)) =>
                /\ Has(cache', c.key)
                /\ Get(cache', c.key).val = Adapt(response)
                /\ Get(cache', c.key) = ret'.data]_vars

\* a load(A) has invoked the fetch function although the cache holds an
\* entry of A that has not expired
C2_Witness ==
    /\ ret.op = "load"
    /\ ret.kind = "pending"
    /\ Has(cache, KeyOf(ret.args))
    /\ ~IsExpired(Get(cache, KeyOf(ret.args)))
    /\ \E c \in BagToSet(calls) : c.op = "load" /\ c.args = ret.args

\* ----------------------------------------------------------------- getRef
Resumes == mq # <<>> /\ Head(mq).t = "assign" /\ mq' = Tail(mq)

\* C5: the value of a binding is defaultValue until an execute of the
\* binding has settled; when one resolves the value becomes the payload it
\* resolved with, when one rejects the value becomes defaultValue, and
\* nothing is raised.
C5_GetRefValue ==
    /\ [](\A b \in 1..Len(refs) : ~refs[b].settled => refs[b].result = DefaultValue)
    /\ [][/\ \A c \in BagToSet(calls), response \in Responses :
               (c.by # 0 /\ RequestResolve(c, response)) =>
                   LET m == mq'[Len(mq')]
                   IN  /\ m.t = "assign" /\ m.ref = c.by
                       /\ m.ok => m.data = Get(cache', c.key)
          /\ \A c \in BagToSet(calls), err \in RawErrors :
               (c.by # 0 /\ RequestReject(c, err)) =>
                   LET m == mq'[Len(mq')]
                   IN  m.t = "assign" /\ m.ref = c.by /\ ~m.ok
          /\ Resumes =>
               LET m == Head(mq)
               IN  /\ refs'[m.ref].result = IF m.ok THEN m.data ELSE DefaultValue
                   /\ ret'.kind # "rejected"]_vars

\* a binding holds the payload its execute resolved with
C5_Witness ==
    \E b \in 1..Len(refs) :
        /\ refs[b].settled
        /\ refs[b].result # DefaultValue
        /\ Has(cache, refs[b].key)
        /\ refs[b].result = Get(cache, refs[b].key)

\* the bound on the fetches stops the scheduler
Stuck == IF mq = <<>> THEN FALSE ELSE Head(mq).t = "flush" /\ ~ENABLED FlushJobs

\* load(A) has just resolved and binding b is a binding on A
LoadResolvedFor(b) ==
    IF b \in 1..Len(refs)
    THEN ret.op = "load" /\ ret.kind = "resolved" /\ refs[b].args = ret.args
    ELSE FALSE

\* binding b holds the entry of its arguments, or there is no such entry
InSync(b) ==
    IF b \in 1..Len(refs)
    THEN IF Has(cache, refs[b].key) THEN refs[b].result = Get(cache, refs[b].key)
         ELSE TRUE
    ELSE FALSE

\* C6: after a load(A) has resolved, every binding on A comes to hold the
\* entry of A (the payload the load resolved with, or what replaced it
\* since), unless the entry is removed first.
C6_LiveBinding ==
    \A b \in 1..MaxRefs : LoadResolvedFor(b) ~> (InSync(b) \/ Stuck)

\* a load(A) has resolved with a payload other than the one a binding on A
\* holds, and the watchEffect of the binding is queued
C6_Witness ==
    \E b \in 1..Len(refs) :
        /\ LoadResolvedFor(b)
        /\ refs[b].settled
        /\ refs[b].result # DefaultValue
        /\ refs[b].result # ret.data
        /\ Get(cache, refs[b].key) = ret.data
        /\ refs[b].queued

\* C7: as long as load, clear and clearOne are not called, a binding
\* invokes the fetch function at most once.
C7_FetchOnce ==
    \A b \in 1..Len(refs) : ~refs[b].disturbed => refs[b].fetches <= 1

\* ---------------------------------------------------------- getGroupByArg
\* the entries whose argument tuple has at position index an argument that
\* serializes as arg does
Expected(c, index, arg) ==
    LET Match(e) ==
            \E a \in argSpace :
                /\ KeyOf(a) = e.key
                /\ \/ index = NoIndex
                   \/ /\ index + 1 <= Len(a)
                      /\ JSONStringify(a[index + 1]) = JSONStringify(arg)
        kept == SelectSeq(c, Match)
    IN  [i \in 1..Len(kept) |-> kept[i].data]

\* C9: getGroupByArg(index, value) yields exactly the cached entries whose
\* argument at position index serializes as value does, and getGroupByArg()
\* yields every cached entry.
C9_Grouping ==
    \A v \in 1..Len(views) :
        (views[v].index = NoIndex \/ views[v].arg # Undefined)
            => ViewValue(v) = Expected(cache, views[v].index, views[v].arg)

\* (1,"x") and (2,"y") are cached and getGroupByArg(0, 1) was read as the
\* one entry whose first argument is 1
C9_Witness ==
    /\ Len(cache) = 2
    /\ \E v \in 1..Len(views) :
          /\ views[v].index = 0 /\ views[v].arg = N1
          /\ ~views[v].dirty
          /\ views[v].value = <<Get(cache, KeyOf(<<N1, X1>>))>>

\* C10: reading a view yields the filter applied to the cache as it is when
\* the view is read.
C10_NeverStale ==
    \A v \in 1..Len(views) :
        ViewValue(v) = GroupFilter(cache, views[v].index, views[v].arg)

\* a view was evaluated, the cache changed, and the view was evaluated again
C10_Witness ==
    \E v \in 1..Len(views) :
        /\ views[v].evals = 2
        /\ ~views[v].dirty
        /\ views[v].value # <<>>

\* ------------------------------------------------------------- expiration
\* C11: with cacheTime = T, an execute issued before fetchedAt + T is served
\* the entry without a fetch, and an execute issued after fetchedAt + T
\* invokes the fetch function.
C11_Expiration ==
    [][\A args \in argSpace :
          (/\ Truthy(options.cacheTime)
           /\ Has(cache, KeyOf(args))
           /\ Get(cache, KeyOf(args)).fetchedAt # NoDate
           /\ Execute(args))
              => LET data     == Get(cache, KeyOf(args))
                     deadline == data.fetchedAt + options.cacheTime * MsPerSecond
                 IN  /\ now < deadline =>
                            (ret'.kind = "hit" /\ ret'.data = data /\ nFetch' = nFetch)
                     /\ now > deadline =>
                            (ret'.kind # "hit" /\ nFetch' = nFetch + 1
                             /\ \E c \in BagToSet(calls') :
                                   /\ c.args = args /\ c.op = "execute"
                                   /\ CopiesIn(c, calls') = CopiesIn(c, calls) + 1)]_vars

\* an execute has invoked the fetch function although the cache holds an
\* entry of its arguments: the entry is older than cacheTime
C11_Witness ==
    /\ Truthy(options.cacheTime)
    /\ ret.op = "execute"
    /\ ret.kind = "pending"
    /\ Has(cache, KeyOf(ret.args))
    /\ Get(cache, KeyOf(ret.args)).fetchedAt + options.cacheTime * MsPerSecond < now

\* C12: with no cacheTime, an execute of arguments that have an entry is
\* served the entry without a fetch, whatever the time.
C12_NoExpiry ==
    [][\A args \in argSpace :
          (~Truthy(options.cacheTime) /\ Has(cache, KeyOf(args)) /\ Execute(args))
              => /\ ret'.kind = "hit"
                 /\ ret'.data = Get(cache, KeyOf(args))
                 /\ nFetch' = nFetch
                 /\ calls' = calls]_vars

\* an entry was served more than a second after construction
C12_Witness ==
    /\ ~Truthy(options.cacheTime)
    /\ ret.op = "execute"
    /\ ret.kind = "hit"
    /\ now > MsPerSecond

\* -------------------------------------------------------------- the hooks
\* hook triggered once: every registered handler invoked once with payload
FanOut(hook, payload) ==
    <<[hook |-> hook, h |-> TriggerCall, payload |-> payload]>>
    \o [i \in 1..Len(hooks[hook]) |-> [hook |-> hook, h |-> hooks[hook][i], payload |-> payload]]

\* C13: when the fetch function rejects with e, error becomes the adapted e,
\* the error hook is triggered with it, isLoading becomes false, the
\* completion hook is triggered, and the call rejects with the adapted e.
C13_RejectionPath ==
    [][\A c \in BagToSet(calls), err \in RawErrors :
          RequestReject(c, err) =>
              /\ error' = AdaptError(err)
              /\ isLoading' = FALSE
              /\ ret'.fired = FanOut("error", Payload(NoData, AdaptError(err)))
                                \o FanOut("finally", NoPayload)
              /\ ret'.op = c.op /\ ret'.args = c.args
              /\ ret'.kind = "rejected"
              /\ ret'.err = AdaptError(err)]_vars

\* C14: an execution that invoked the fetch function triggers the success
\* hook with the payload when the fetch succeeds and the error hook when it
\* fails, never both, then the completion hook; every handler of a triggered
\* hook is invoked once.
C14_FanOut ==
    [][/\ \A c \in BagToSet(calls), response \in Responses :
            RequestResolve(c, response) =>
                ret'.fired = FanOut("success", Payload(Get(cache', c.key), Null))
                             \o FanOut("finally", NoPayload)
       /\ \A c \in BagToSet(calls), err \in RawErrors :
            RequestReject(c, err) =>
                ret'.fired = FanOut("error", Payload(NoData, AdaptError(err)))
                             \o FanOut("finally", NoPayload)]_vars

\* ---------------------------------------------------------- overlapping calls
\* C15: every execute that misses the cache and every load invokes the fetch
\* function, also while other calls for the same arguments are in flight,
\* and the entry of A is the payload of the fetch for A that succeeded last.
C15_LastResolvedWins ==
    /\ [](\A args \in argSpace :
            hist[args].last # NoData =>
                /\ Has(cache, KeyOf(args))
                /\ Get(cache, KeyOf(args)) = hist[args].last)
    /\ [][\A args \in argSpace :
            ((Execute(args) /\ ~CacheHit(FALSE, KeyOf(args))) \/ Load(args)) =>
                /\ nFetch' = nFetch + 1
                /\ \E c \in BagToSet(calls') :
                      /\ c.args = args
                      /\ CopiesIn(c, calls') = CopiesIn(c, calls) + 1
                      /\ calls' = calls (+) SetToBag({c})]_vars

\* two execute(A) overlapped and both have resolved, with different
\* payloads: the entry of A is the payload of the one that resolved last
C15_Witness ==
    /\ ret.op = "execute"
    /\ ret.kind = "resolved"
    /\ hist[ret.args].old # NoData
    /\ hist[ret.args].old # ret.data
    /\ Get(cache, KeyOf(ret.args)) = ret.data
    /\ calls = EmptyBag

\* ------------------------------------------------------------ key sensitivity
\* C19: execute(1) and execute("1") have different keys: when both have
\* succeeded the cache holds the two entries, and an execute is served only
\* the payload of a fetch made for its own arguments.
C19_KeySensitivity ==
    /\ [](/\ KeyOf(<<N1>>) # KeyOf(<<S1>>)
          /\ (hist[<<N1>>].last # NoData /\ hist[<<S1>>].last # NoData) =>
                 /\ Len(cache) = 2
                 /\ Get(cache, KeyOf(<<N1>>)) = hist[<<N1>>].last
                 /\ Get(cache, KeyOf(<<S1>>)) = hist[<<S1>>].last)
    /\ [][\A args \in {<<N1>>, <<S1>>} :
            Execute(args) =>
                /\ hist[args].last = NoData => ret'.kind = "pending"
                /\ ret'.kind = "hit" => ret'.data = hist[args].last]_vars

\* 1 and "1" are cached with different payloads and execute("1") was served
\* the payload fetched for "1"
C19_Witness ==
    /\ Len(cache) = 2
    /\ hist[<<N1>>].last # hist[<<S1>>].last
    /\ ret.op = "execute"
    /\ ret.kind = "hit"
    /\ ret.args = <<S1>>
    /\ ret.data = hist[<<S1>>].last
    /\ ret.data # Get(cache, KeyOf(<<N1>>))

\* ---------------------------------------------------------- createEventHook
\* how many times trigger invoked h
Invocations(fired, h) == Cardinality({i \in 1..Len(fired) : fired[i].h = h})

\* C16: after on(h) was called twice, one trigger invokes h twice.
C16_NoDedup ==
    [][\A hook \in HookNames, payload \in TriggerPayloads, h \in Handlers :
          (/\ hist[hook][h].on = 2
           /\ ~Throws(hooks[hook])
           /\ HookTrigger(hook, payload))
              => Invocations(ret'.fired, h) = 2]_vars

\* the handlers a trigger of the hook would invoke
InvokedSet(hs) == {Invoked(hs)[i] : i \in 1..Len(Invoked(hs))}

\* C17: a handler removed with off is not invoked by a trigger until it is
\* registered again, and off(h) leaves the other handlers in place: a
\* trigger invokes after off(h) the handlers it invoked before, but h.
C17_Unsubscribe ==
    [][/\ \A hook \in HookNames, payload \in TriggerPayloads, h \in Handlers :
            (hist[hook][h].on = 0 /\ HookTrigger(hook, payload))
                => Invocations(ret'.fired, h) = 0
       /\ \A hook \in HookNames, h \in Handlers :
            HookOff(hook, h) =>
                /\ h \notin InvokedSet(hooks'[hook])
                /\ InvokedSet(hooks[hook]) \ {h} \subseteq InvokedSet(hooks'[hook])
                /\ \A other \in HookNames \ {hook} : hooks'[other] = hooks[other]]_vars

\* a trigger has invoked a handler and not the handler that off removed
C17_Witness ==
    /\ ret.op = "trigger"
    /\ \E h, other \in Handlers :
          /\ hist[ret.fired[1].hook][h].off
          /\ hist[ret.fired[1].hook][h].on = 0
          /\ Invocations(ret.fired, h) = 0
          /\ Invocations(ret.fired, other) = 1

\* ---------------------------------------------------------- run to completion
Settled(c) ==
    ret.op = c.op /\ ret.args = c.args /\ ret.kind \in {"resolved", "rejected"}

\* C20: a call leaves the calls in flight only by settling, one at a time,
\* whatever else is called meanwhile, and every call in flight settles.
C20_RunToCompletion ==
    /\ [][\A c \in CallSpace :
            /\ CopiesIn(c, calls') >= CopiesIn(c, calls) - 1
            /\ CopiesIn(c, calls') < CopiesIn(c, calls) => Settled(c)']_vars
    /\ \A c \in CallSpace : BagIn(c, calls) ~> Settled(c)

\* clear() was called while a call was in flight, and the call still is
C20_Witness ==
    /\ ret.op = "clear"
    /\ calls # EmptyBag

\* ------------------------------------------------------------- two engines
\* the state of the engine in use that the claim names
Observed ==
    [cache |-> cache, isLoading |-> isLoading, error |-> error,
     triggerRef |-> triggerRef, refs |-> refs]
ObservedOf(e) ==
    [cache |-> e.cache, isLoading |-> e.isLoading, error |-> e.error,
     triggerRef |-> e.triggerRef, refs |-> e.refs]

\* C18: an operation of one engine leaves the cache, isLoading, error,
\* triggerRef and the bindings of the other engine as they are: the other
\* engine is found as it was left.
C18_EngineIsolation ==
    [][/\ ret'.op # "switch" => ObservedOf(peer') = ObservedOf(peer)
       /\ ret'.op = "switch" =>
               (Observed' = ObservedOf(peer) /\ ObservedOf(peer') = Observed)]_vars

\* the binding of one engine holds a payload of its cache while the other
\* engine, with a binding on the same arguments, has an empty cache
C18_Witness ==
    /\ cache # <<>>
    /\ refs # <<>>
    /\ refs[1].result # DefaultValue
    /\ peer.cache = <<>>
    /\ peer.refs # <<>>
    /\ peer.refs[1].args = refs[1].args
    /\ peer.refs[1].result = DefaultValue
    /\ peer.calls # EmptyBag

\* --------------------------------------------------------- useAwaitingEvent
StateOf(p) == IF p <= Len(promises) THEN promises[p].state ELSE "none"
\* the timer of promise p has been cleared before it fired
Stopped(p) == StateOf(p) # "resolved" /\ p <= Len(timers) /\ ~timers[p].armed

C22_RejectsWhileWaiting ==
    [][(isWaiting /\ ret'.op = "wait") =>
          /\ ret'.kind = "rejected"
          /\ ret'.err = AlreadyPerformed
          /\ UNCHANGED awaitVars]_vars

\* the second execute was refused while the timer of the first is armed
C22_Witness ==
    /\ ret.op = "wait"
    /\ ret.kind = "rejected"
    /\ isWaiting
    /\ Len(promises) = 1
    /\ promises[1].state = "pending"
    /\ timers[1].armed

\* C23: cancel() sets isWaiting to false; a promise that was pending when
\* cancel() ran is never resolved, and is eventually rejected.
C23_CancelRejects ==
    /\ [][ret'.op = "cancel" => ~isWaiting']_vars
    /\ [](\A p \in 1..Len(hist) : hist[p].cancelled => promises[p].state # "resolved")
    /\ \A p \in 1..MaxWaits :
           (p <= Len(hist) /\ hist[p].cancelled) ~> (StateOf(p) = "rejected")

\* ------------------------------------------------------------- the engine
\* C24: an execute of arguments whose entry is served changes nothing of
\* isLoading, error, triggerRef and the cache, triggers no hook and does not
\* invoke the fetch function.
C24_HitChangesNothing ==
    [][\A args \in argSpace :
          (Execute(args) /\ CacheHit(FALSE, KeyOf(args))) =>
              /\ UNCHANGED <<isLoading, error, triggerRef, cache, calls, nFetch>>
              /\ ret'.fired = <<>>
              /\ ret'.seen = <<>>
              /\ ret'.data = Get(cache, KeyOf(args))]_vars

\* with cacheTime set, an execute was served a stamped entry while another
\* fetch is in flight
C24_Witness ==
    /\ ret.op = "execute"
    /\ ret.kind = "hit"
    /\ ret.data.fetchedAt # NoDate
    /\ isLoading
    /\ calls # EmptyBag

\* C25: with cacheTime = T, execute is served the entry stamped fetchedAt if
\* and only if now < fetchedAt + T; at now = fetchedAt + T the fetch function
\* is invoked.
C25_ExpiryBoundary ==
    [][\A args \in argSpace :
          (/\ Truthy(options.cacheTime)
           /\ Has(cache, KeyOf(args))
           /\ Get(cache, KeyOf(args)).fetchedAt # NoDate
           /\ Execute(args))
              => LET data     == Get(cache, KeyOf(args))
                     deadline == data.fetchedAt + options.cacheTime * MsPerSecond
                 IN  /\ (ret'.kind = "hit") <=> (now < deadline)
                     /\ now = deadline => nFetch' = nFetch + 1]_vars

\* C26: when a fetch succeeds the entry is written, the success hook is
\* triggered (its handlers see the new entry and isLoading true), triggerRef
\* is incremented, isLoading is set to false and the completion hook is
\* triggered (its handlers see isLoading false), in this order.
C26_SuccessOrder ==
    [][\A c \in BagToSet(calls), response \in Responses :
          RequestResolve(c, response) =>
              LET entry == Get(cache', c.key) IN
              /\ ret'.seen =
                    <<[hook |-> "success", isLoading |-> TRUE, entry |-> entry,
                       triggerRef |-> triggerRef],
                      [hook |-> "finally", isLoading |-> FALSE, entry |-> entry,
                       triggerRef |-> triggerRef + 1]>>
              /\ triggerRef' = triggerRef + 1
              /\ ~isLoading']_vars

\* C27: a step that invokes the fetch function leaves error null.
C27_ErrorReset ==
    [][nFetch' # nFetch => (nFetch' = nFetch + 1 /\ error' = Null)]_vars

\* a fetch has just been started after the only earlier fetch had failed
\* (no success handler is registered and triggerRef was never incremented)
C27_Witness ==
    /\ ret.kind = "pending"
    /\ nFetch = 2
    /\ BagCardinality(calls) = 1
    /\ triggerRef = 0
    /\ hooks.success = <<>>
    /\ error = Null

\* C28: the entry of A is the adapted response of the fetch for A that
\* succeeded last: it is written when a fetch for A succeeds, and no other
\* step changes it other than by removing it.
C28_EntryIsLastSuccess ==
    /\ [](\A args \in argSpace :
            Has(cache, KeyOf(args)) => Get(cache, KeyOf(args)) = hist[args].last)
    /\ [][\A c \in BagToSet(calls), response \in Responses :
            RequestResolve(c, response) =>
                Get(cache', c.key) = Data(Adapt(response), NoDate)]_vars
    /\ [][\A args \in argSpace :
            (/\ Has(cache', KeyOf(args))
             /\ ~Has(cache, KeyOf(args)) \/ Get(cache', KeyOf(args)) # Get(cache, KeyOf(args)))
                => \E c \in BagToSet(calls), response \in Responses :
                      c.args = args /\ RequestResolve(c, response)]_vars

\* a fetch for A has failed after another fetch for A had succeeded: the
\* entry of A is still the payload of the one that succeeded
C28_Witness ==
    /\ ret.kind = "rejected"
    /\ ret.fired # <<>>
    /\ ret.fired[1].hook = "error"
    /\ Has(cache, KeyOf(ret.args))
    /\ Get(cache, KeyOf(ret.args)) = hist[ret.args].last
    /\ calls = EmptyBag

\* C29: triggerRef never decreases; it is incremented by one by every fetch
\* that succeeds and changed by no other step.
C29_GenerationCounter ==
    [][/\ triggerRef' >= triggerRef
       /\ \A c \in BagToSet(calls), response \in Responses :
             RequestResolve(c, response) => triggerRef' = triggerRef + 1
       /\ triggerRef' # triggerRef =>
             \E c \in BagToSet(calls), response \in Responses : RequestResolve(c, response)]_vars

\* C30: whatever the handlers do, a settlement invokes every handler of the
\* hooks it triggers, and the call resolves with the entry, or rejects with
\* the adapted error which error then holds, the cache being left as it was.
C30_HandlersCannotBreak ==
    [][/\ \A c \in BagToSet(calls), response \in Responses :
            RequestResolve(c, response) =>
                /\ ret'.fired = FanOut("success", Payload(Get(cache', c.key), Null))
                                 \o FanOut("finally", NoPayload)
                /\ ret'.kind = "resolved"
                /\ ret'.data = Get(cache', c.key)
                /\ error' = error
                /\ ~isLoading'
       /\ \A c \in BagToSet(calls), err \in RawErrors :
            RequestReject(c, err) =>
                /\ ret'.fired = FanOut("error", Payload(NoData, AdaptError(err)))
                                 \o FanOut("finally", NoPayload)
                /\ ret'.kind = "rejected"
                /\ ret'.err = AdaptError(err)
                /\ error' = AdaptError(err)
                /\ cache' = cache
                /\ ~isLoading']_vars

\* C39: isWaiting is true only while the timer of the current execution is
\* armed and its promise pending.
C39_WaitingHasTimer ==
    isWaiting =>
        /\ timer \in 1..Len(timers)
        /\ timers[timer].armed
        /\ promises[timers[timer].p].state = "pending"

\* ------------------------------------------------------------- quiescence
\* C32: when no execution is suspended at its fetch, isLoading is false.
C32_IdleNotLoading ==
    calls = EmptyBag => ~isLoading

\* two fetches, one of them of a binding, have overlapped and settled, the
\* last of them failing
C32_Witness ==
    /\ calls = EmptyBag
    /\ nFetch >= 2
    /\ refs # <<>>
    /\ refs[1].fetches >= 1
    /\ error # Null
    /\ cache # <<>>
    /\ ~isLoading

\* C33: when no fetch is in flight, error is null iff the execution that
\* completed last, cache hits aside, succeeded: the step that settles the last
\* fetch in flight leaves error null iff that fetch resolved, and error keeps
\* its value as long as nothing is in flight.
C33_ErrorIffLastFailed ==
    [][/\ (calls # EmptyBag /\ calls' = EmptyBag) =>
            (error' = Null <=>
                \E c \in BagToSet(calls), response \in Responses : RequestResolve(c, response))
       /\ (calls = EmptyBag /\ calls' = EmptyBag) => error' = error]_vars

\* C36: clear() and clearOne(A) leave the fetches in flight as they are and
\* invoke no fetch; a fetch that resolves, also after a clear, writes the
\* entry of its arguments.
C36_ClearKeepsFetch ==
    [][/\ (Clear \/ \E args \in argSpace : ClearOne(args)) =>
            (calls' = calls /\ nFetch' = nFetch /\ isLoading' = isLoading)
       /\ \A c \in BagToSet(calls), response \in Responses :
            RequestResolve(c, response) =>
                /\ Has(cache', c.key)
                /\ Get(cache', c.key).val = Adapt(response)]_vars

\* the only fetch, the one of a binding, has just resolved and written its
\* entry; clear() or clearOne was called while it was in flight, and nothing
\* was called since
C36_Witness ==
    /\ Len(refs) = 1
    /\ refs[1].disturbed
    /\ refs[1].queued
    /\ ~refs[1].settled
    /\ ret.op = "none"
    /\ nFetch = 1
    /\ calls = EmptyBag
    /\ mq # <<>>
    /\ Has(cache, refs[1].key)

C37_ExpiryKeeps ==
    /\ [](\A i \in 1..Len(cache) :
            IsExpired(cache[i].data) =>
                \E j \in 1..Len(GroupFilter(cache, NoIndex, Undefined)) :
                    GroupFilter(cache, NoIndex, Undefined)[j] = cache[i].data)
    /\ [][/\ \A i \in 1..Len(cache) :
              IsExpired(cache[i].data) =>
                  \/ Has(cache', cache[i].key) /\ Get(cache', cache[i].key) = cache[i].data
                  \/ \E c \in BagToSet(calls), response \in Responses :
                        c.key = cache[i].key /\ RequestResolve(c, response)
                  \/ Clear
                  \/ \E args \in argSpace : KeyOf(args) = cache[i].key /\ ClearOne(args)
           /\ \A c \in BagToSet(calls), err \in RawErrors :
              RequestReject(c, err) => cache' = cache]_vars

\* the fetch that was to replace an expired entry has been rejected, and the
\* entry is in the cache, expired
C37_Witness ==
    /\ ret.op = "execute"
    /\ ret.kind = "rejected"
    /\ Has(cache, KeyOf(ret.args))
    /\ IsExpired(Get(cache, KeyOf(ret.args)))

\* ------------------------------------------------------ bindings at rest
\* C34: when no fetch is in flight and no microtask is pending, every binding
\* whose arguments have an entry holds that entry.
C34_BindingHoldsEntry ==
    (calls = EmptyBag /\ mq = <<>>) =>
        \A b \in 1..Len(refs) :
            Has(cache, refs[b].key) => refs[b].result = Get(cache, refs[b].key)

\* C35: with no cacheTime, every binding that a successful fetch queues for
\* re-evaluation finds an entry of its arguments, so that its re-evaluation
\* is a cache hit; a failed fetch queues no re-evaluation and invokes no
\* fetch.
C35_ReevaluationHits ==
    [][~Truthy(options.cacheTime) =>
        /\ \A c \in BagToSet(calls), response \in Responses :
              RequestResolve(c, response) =>
                  \A b \in 1..Len(refs) :
                      (refs'[b].queued /\ ~refs[b].queued) => Has(cache', refs[b].key)
        /\ \A c \in BagToSet(calls), err \in RawErrors :
              RequestReject(c, err) =>
                  /\ refs' = refs
                  /\ nFetch' = nFetch
                  /\ ~FlushPending(mq) => ~FlushPending(mq')]_vars

\* -------------------------------------------------------- kinds of payload
\* v with the property fetchedAt added to it and nothing else altered
WithStamp(v, at) == [v EXCEPT !.props = Put(@, "fetchedAt", DateOf(at))]

\* C31: when a fetch resolves, the value written to the cache, the value
\* handed to the success hook and the value the call resolves with are the
\* same: the adapted response, with the property fetchedAt added and nothing
\* else altered when cacheTime is set, whether it is an object, an array or
\* a primitive.
C31_PayloadIdentity ==
    [][\A args \in argSpace, response \in Payloads :
          ResolvePayload(args, response) =>
              LET adapted  == IF options.adapter THEN AdapterJs(response) ELSE response
                  expected == IF Truthy(options.cacheTime) THEN WithStamp(adapted, now)
                              ELSE adapted
              IN  /\ Get(cache', KeyOf(args)) = expected
                  /\ ret'.fired[1].payload.data = expected
                  /\ ret'.data = expected]_vars
====
